---- MODULE Spec2Model ----
(***************************************************************************)
(* Model of src/graphql/schema/collection/createCollectionGqlType.ts:      *)
(* the construction of the GraphQL object type of a collection, the lazy   *)
(* evaluation of its `fields` thunk, its `isTypeOf` predicate and the      *)
(* `getPaginatorInput` of its head-relation connection fields.             *)
(*                                                                         *)
(* Names are modelled as sequences of lower-case words (the string split   *)
(* at its separators); a formatted name is the string formatName makes of  *)
(* the words.  A condition is modelled by the set of tail values it        *)
(* selects.                                                                *)
(***************************************************************************)
EXTENDS Integers, Sequences, FiniteSets, TLC

VARIABLES primaryKey, paginator, hook, relations, types, returned, calls, observed

inventory == <<primaryKey, paginator, hook, relations>>
vars == <<primaryKey, paginator, hook, relations, types, returned, calls, observed>>

-----------------------------------------------------------------------------
(* Bounds *)

\* Most relations registered in the inventory.
MaxRels == 2
\* Most calls of createCollectionGqlType in one behaviour.
MaxTypes == 2

-----------------------------------------------------------------------------
(* The data model handed to the builder (buildToken.inventory, options, _hooks) *)

Collections == {"person", "post"}

\* collection.name
CollectionName(c) == IF c = "person" THEN <<"people">> ELSE <<"posts">>

\* collection.type.name
TypeName(c) == IF c = "person" THEN <<"person">> ELSE <<"post">>

\* collection.type.fields: the field names in declaration order
TypeFields(c) ==
  IF c = "person" THEN << <<"first", "name">>, <<"about">> >>
                  ELSE << <<"headline">>, <<"node", "id">> >>

\* buildToken.options.nodeIdFieldName
nodeIdFieldName == "nodeId"

\* What buildToken._hooks.objectTypeFieldEntries is: absent, or a function of
\* the type that returns these keys.
HookChoices == {"absent", "present"}

HookResult(c) == IF c = "person" THEN <<"extra", "more">> ELSE <<"headline">>

\* The relations the data model may register: name, head collection
\* (headCollectionKey.collection), tail collection, and whether the relation
\* has a getTailConditionFromHeadValue function.
Relation(n, h, t, g) == [name |-> n, head |-> h, tail |-> t, cond |-> g]

RelationChoices ==
  { Relation(<<"author">>, "person", "post", TRUE),
    Relation(<<"editor">>, "person", "post", TRUE),
    Relation(<<"editor">>, "person", "post", FALSE),
    Relation(<<"author">>, "post", "person", TRUE),
    Relation(<<"author">>, "person", "person", TRUE) }

\* inventory.getRelations()
getRelations == relations

-----------------------------------------------------------------------------
(* Helpers of the repository that createCollectionGqlType.ts imports *)

Capitalize(w) ==
  CASE w = "by" -> "By"
    [] w = "id" -> "Id"
    [] w = "name" -> "Name"
    [] w = "author" -> "Author"
    [] w = "editor" -> "Editor"
    [] w = "person" -> "Person"
    [] w = "post" -> "Post"
    [] w = "people" -> "People"
    [] w = "posts" -> "Posts"
    [] w = "first" -> "First"
    [] w = "about" -> "About"
    [] w = "node" -> "Node"
    [] w = "headline" -> "Headline"
    [] OTHER -> w

RECURSIVE JoinCapitalized(_)
JoinCapitalized(ws) ==
  IF ws = <<>> THEN "" ELSE Capitalize(Head(ws)) \o JoinCapitalized(Tail(ws))

\* formatName.field: camel case
formatNameField(ws) ==
  IF ws = <<>> THEN "" ELSE Head(ws) \o JoinCapitalized(Tail(ws))

\* formatName.type: pascal case
formatNameType(ws) == JoinCapitalized(ws)

\* A field entry: the key, and of the value the source that made it and the
\* field or relation (by position) its resolver closes over.
Entry(k, kind, src) == [key |-> k, kind |-> kind, src |-> src]

\* The falsy entry (`primaryKey && [...]` without a primary key, `null` of a
\* skipped relation).
Null == Entry("", "null", 0)

RECURSIVE Flatten(_)
Flatten(ss) == IF ss = <<>> THEN <<>> ELSE Head(ss) \o Flatten(Tail(ss))

IsEntry(e) == e.kind # "null"

HasDuplicateKey(es) ==
  \E i, j \in 1..Len(es) : i < j /\ es[i].key = es[j].key

\* buildObject: merges the entry lists in order, drops the falsy entries and
\* throws on a key defined twice.
buildObject(entriess) ==
  LET es == SelectSeq(Flatten(entriess), IsEntry)
  IN  IF HasDuplicateKey(es)
        THEN [state |-> "error", entries |-> <<>>]
        ELSE [state |-> "ok", entries |-> es]

-----------------------------------------------------------------------------
(* createCollectionGqlType *)

\* const collectionTypeName = formatName.type(type.name)
collectionTypeName(c) == formatNameType(TypeName(c))

\* interfaces: primaryKey ? [getNodeInterfaceType(buildToken)] : []
InterfacesAlways(c) == <<"Node">>
Interfaces(c) == IF primaryKey[c] THEN <<"Node">> ELSE <<>>

\* The id field entry list.
IdentityEntriesAlways(c) == << Entry(nodeIdFieldName, "identity", 0) >>
IdentityEntries(c) ==
  << IF primaryKey[c] THEN Entry(nodeIdFieldName, "identity", 0) ELSE Null >>

\* Array.from(type.fields).map(...)
IntrinsicEntries(c) ==
  [i \in 1..Len(TypeFields(c)) |->
     Entry(formatNameField(TypeFields(c)[i]), "intrinsic", i)]

\* buildToken._hooks.objectTypeFieldEntries ? ...(type, buildToken) : []
HookEntries(c) ==
  IF hook = "absent" THEN <<>>
  ELSE [i \in 1..Len(HookResult(c)) |-> Entry(HookResult(c)[i], "extension", i)]

\* createCollectionRelationTailGqlFieldEntries(buildToken, collection): one
\* entry, keyed by the relation's name, per relation whose tail is the collection.
RECURSIVE TailEntriesFrom(_, _, _)
TailEntriesFrom(c, rels, i) ==
  IF i > Len(rels) THEN <<>>
  ELSE (IF rels[i].tail = c
          THEN << Entry(formatNameField(rels[i].name), "reverse", i) >>
          ELSE <<>>) \o TailEntriesFrom(c, rels, i + 1)

TailEntries(c, rels) == TailEntriesFrom(c, rels, 1)

\* formatName.field(`${tailCollection.name}-by-${relation.name}`)
ForwardFieldNameNoRelation(r) == formatNameField(CollectionName(r.tail) \o <<"by">>)
ForwardFieldName(r) ==
  formatNameField(CollectionName(r.tail) \o <<"by">> \o r.name)

\* if (!tailPaginator || !relation.getTailConditionFromHeadValue) return null
UsableIgnoringCondition(r) == paginator[r.tail]
Usable(r) == paginator[r.tail] /\ r.cond

\* The .map callback of the head relations: null, or the connection field entry.
HeadRelationEntry(r, i) ==
  IF ~Usable(r) THEN Null ELSE Entry(ForwardFieldName(r), "forward", i)

\* .filter(relation => relation.headCollectionKey.collection === collection)
IsTailOf(c, r) == r.tail = c
IsHeadOf(c, r) == r.head = c

RECURSIVE HeadEntriesFrom(_, _, _)
HeadEntriesFrom(c, rels, i) ==
  IF i > Len(rels) THEN <<>>
  ELSE (IF IsHeadOf(c, rels[i]) THEN << HeadRelationEntry(rels[i], i) >> ELSE <<>>)
       \o HeadEntriesFrom(c, rels, i + 1)

HeadEntries(c, rels) == HeadEntriesFrom(c, rels, 1)

\* The five arguments of buildObject, with the relations the reverse side and
\* the forward side read.
FieldSourcesForwardFirst(c, tailRels, headRels) ==
  << IdentityEntries(c), IntrinsicEntries(c), HookEntries(c),
     HeadEntries(c, headRels), TailEntries(c, tailRels) >>
FieldSources(c, tailRels, headRels) ==
  << IdentityEntries(c), IntrinsicEntries(c), HookEntries(c),
     TailEntries(c, tailRels), HeadEntries(c, headRels) >>

\* fields: () => buildObject(...)
FieldsThunk(c) == buildObject(FieldSources(c, getRelations, getRelations))

\* new GraphQLObjectType({ name, isTypeOf, interfaces, fields })
NewObjectType(c) ==
  [collection |-> c, name |-> collectionTypeName(c), interfaces |-> Interfaces(c),
   state |-> "thunk", entries |-> <<>>]

\* isTypeOf: value => (value != null && typeof value[$$nodeValueCollection]
\*   !== 'undefined' ? value[$$nodeValueCollection] === collection : true)
\*   && type.isTypeOf(value)
\* A value is null or an object; `tag` is its $$nodeValueCollection property
\* ("undefined" when it has none) and `shape` the collections whose
\* type.isTypeOf accepts it.
Tags == {"undefined", "null"} \cup Collections

Values ==
  { v \in [null : BOOLEAN, tag : Tags, shape : SUBSET Collections] :
      v.null => v.tag = "undefined" }

typeIsTypeOf(c, v) == c \in v.shape

IsTypeOfTagOnly(c, v) ==
  IF ~v.null /\ v.tag # "undefined" THEN v.tag = c ELSE typeIsTypeOf(c, v)
IsTypeOf(c, v) ==
  (IF ~v.null /\ v.tag # "undefined" THEN v.tag = c ELSE TRUE) /\ typeIsTypeOf(c, v)

-----------------------------------------------------------------------------
(* Conditions and getPaginatorInput *)

HeadValues == {1, 2}

\* The values of a tail collection: the head value each refers to, and one
\* field the `condition` argument can constrain.
TailValues == [ref : HeadValues, flag : BOOLEAN]

\* args.condition: undefined, the empty object, or an object naming the field.
ConditionArgs == {"undefined", "empty", "flagTrue", "flagFalse"}

\* relation.getTailConditionFromHeadValue(headValue)
getTailConditionFromHeadValue(r, headValue) ==
  { v \in TailValues : v.ref = headValue }

\* fromGqlInput of getConditionGqlType: no payload or no operand is the
\* always-true condition, a named field an equality on it.
conditionFromGqlInput(a) ==
  CASE a = "flagTrue" -> { v \in TailValues : v.flag }
    [] a = "flagFalse" -> { v \in TailValues : ~v.flag }
    [] OTHER -> TailValues

\* conditionHelpers.and
conditionAnd(a, b) == a \cap b

\* getPaginatorInput: (headValue, args) => conditionHelpers.and(...)
getPaginatorInputArgOnly(r, headValue, a) == conditionFromGqlInput(a)
getPaginatorInput(r, headValue, a) ==
  conditionAnd(getTailConditionFromHeadValue(r, headValue), conditionFromGqlInput(a))

-----------------------------------------------------------------------------
(* State *)

Zero == [c \in Collections |-> 0]

NoCalls ==
  [nodeInterface |-> 0, thunk |-> Zero, gqlOutputType |-> Zero, hook |-> Zero,
   tailEntries |-> Zero, getRelations |-> Zero,
   conditionType |-> [i \in 1..Len(relations) |-> 0],
   connectionField |-> [i \in 1..Len(relations) |-> 0]]

NotObserved ==
  [op |-> "none", type |-> 0, value |-> [null |-> TRUE, tag |-> "undefined", shape |-> {}],
   rel |-> 0, head |-> 0, arg |-> "undefined", accepted |-> FALSE, input |-> {}]

Inventories(n) == UNION { [1..k -> RelationChoices] : k \in 0..n }

Init ==
  /\ primaryKey \in [Collections -> BOOLEAN]
  /\ paginator \in [Collections -> BOOLEAN]
  /\ hook \in HookChoices
  /\ relations \in Inventories(MaxRels)
  /\ types = <<>>
  /\ returned = <<>>
  /\ calls = NoCalls
  /\ observed = NotObserved

\* The calls one run of the fields thunk of collection c makes.
CallsAfterThunk(c) ==
  LET made(i) == IF IsHeadOf(c, relations[i]) /\ Usable(relations[i]) THEN 1 ELSE 0
  IN  [calls EXCEPT
         !.thunk[c] = @ + 1,
         !.gqlOutputType[c] = @ + Len(TypeFields(c)),
         !.hook[c] = @ + (IF hook = "absent" THEN 0 ELSE 1),
         !.tailEntries[c] = @ + 1,
         !.getRelations[c] = @ + 1,
         !.conditionType = [i \in 1..Len(relations) |-> @[i] + made(i)],
         !.connectionField = [i \in 1..Len(relations) |-> @[i] + made(i)]]

\* createCollectionGqlType(buildToken, collection) with the fields computed
\* in the call itself.
BuildEager(c) ==
  /\ Len(types) < MaxTypes
  /\ types' = Append(types, [NewObjectType(c) EXCEPT
                               !.state = FieldsThunk(c).state,
                               !.entries = FieldsThunk(c).entries])
  /\ returned' = Append(returned, [collection |-> c, type |-> Len(types) + 1])
  /\ calls' = [CallsAfterThunk(c) EXCEPT
                 !.nodeInterface = @ + (IF primaryKey[c] THEN 1 ELSE 0)]
  /\ UNCHANGED <<inventory, observed>>

\* createCollectionGqlType(buildToken, collection): a new object type whose
\* fields are a thunk.
Build(c) ==
  /\ Len(types) < MaxTypes
  /\ types' = Append(types, NewObjectType(c))
  /\ returned' = Append(returned, [collection |-> c, type |-> Len(types) + 1])
  /\ calls' = [calls EXCEPT !.nodeInterface = @ + (IF primaryKey[c] THEN 1 ELSE 0)]
  /\ UNCHANGED <<inventory, observed>>

\* The schema evaluates the fields thunk of a type once.
ThunkPending(t) == types[t].state = "thunk"

\* The first traversal of object type t: its fields thunk runs.
EvalFields(t) ==
  /\ ThunkPending(t)
  /\ LET c == types[t].collection
         r == FieldsThunk(c)
     IN  /\ types' = [types EXCEPT ![t].state = r.state, ![t].entries = r.entries]
         /\ calls' = CallsAfterThunk(c)
  /\ UNCHANGED <<inventory, returned, observed>>

\* The execution runtime asks object type t whether value v is of it.
IsTypeOfCall(t, v) ==
  /\ observed' = [NotObserved EXCEPT
                    !.op = "isTypeOf", !.type = t, !.value = v,
                    !.accepted = IsTypeOf(types[t].collection, v)]
  /\ UNCHANGED <<inventory, types, returned, calls>>

\* The connection field e of object type t resolves for a head value and
\* arguments: its getPaginatorInput runs.
ResolveCall(t, e, headValue, a) ==
  /\ types[t].state = "ok"
  /\ types[t].entries[e].kind = "forward"
  /\ LET i == types[t].entries[e].src
     IN  observed' = [NotObserved EXCEPT
                        !.op = "resolve", !.type = t, !.rel = i,
                        !.head = headValue, !.arg = a,
                        !.input = getPaginatorInput(relations[i], headValue, a)]
  /\ UNCHANGED <<inventory, types, returned, calls>>

BuildStep == \E c \in Collections : Build(c)
EvalStep == \E t \in 1..Len(types) : EvalFields(t)
IsTypeOfStep == \E t \in 1..Len(types), v \in Values : IsTypeOfCall(t, v)
ResolveStep ==
  \E t \in 1..Len(types) : \E e \in 1..Len(types[t].entries) :
    \E h \in HeadValues, a \in ConditionArgs : ResolveCall(t, e, h, a)

Next == BuildStep \/ EvalStep

Spec == Init /\ [][Next]_vars

\* Schema construction followed by query execution, over the inventories of
\* at most one relation, without hook, where person alone has a primary key
\* and every collection a paginator.
InitQuery ==
  /\ Init
  /\ hook = "absent"
  /\ primaryKey = [c \in Collections |-> c = "person"]
  /\ Len(relations) <= 1
  /\ \A c \in Collections : paginator[c]

NextQuery == BuildStep \/ EvalStep \/ IsTypeOfStep \/ ResolveStep

SpecQuery == InitQuery /\ [][NextQuery]_vars

-----------------------------------------------------------------------------
(* Vocabulary of the properties *)

TypeIds == 1..Len(types)

RelationIds == 1..Len(relations)

Evaluated(t) == types[t].state # "thunk"

Ok(t) == types[t].state = "ok"

EntryIds(t) == 1..Len(types[t].entries)

\* The entries of type t that kind made from field or relation src.
EntriesOf(t, kind, src) ==
  { e \in EntryIds(t) : types[t].entries[e].kind = kind /\ types[t].entries[e].src = src }

HasKind(t, kind) == \E e \in EntryIds(t) : types[t].entries[e].kind = kind

\* All entries the five sources of collection c contribute.
Contributed(c) == SelectSeq(Flatten(FieldSources(c, relations, relations)), IsEntry)

Collides(c) == HasDuplicateKey(Contributed(c))

\* An entry list without the positions of the relations in the inventory.
Unindexed(es) == [k \in 1..Len(es) |-> <<es[k].key, es[k].kind>>]

RemoveAt(s, i) == SubSeq(s, 1, i - 1) \o SubSeq(s, i + 1, Len(s))

\* Relation i has head c and is skipped by the feature gate.
Skipped(c, i) ==
  /\ relations[i].head = c
  /\ (~paginator[relations[i].tail] \/ ~relations[i].cond)

Rank(kind) ==
  CASE kind = "identity" -> 1
    [] kind = "intrinsic" -> 2
    [] kind = "extension" -> 3
    [] kind = "reverse" -> 4
    [] kind = "forward" -> 5
    [] OTHER -> 0

-----------------------------------------------------------------------------
(* C1 *)

\* C1: any two calls createCollectionGqlType(buildToken, c) for the same
\* collection return the identical output type object.
C1_SameTypeReturned ==
  \A i, j \in 1..Len(returned) :
    returned[i].collection = returned[j].collection
      => returned[i].type = returned[j].type

-----------------------------------------------------------------------------
(* C2 *)

\* C2 as stated: a collision between the field sources of a collection makes
\* the build call itself fail, so no output type of a colliding collection is
\* ever returned; two relations of one head and one tail with distinct names
\* give distinct fields.
C2_FailsAtBuild ==
  /\ \A t \in TypeIds : ~Collides(types[t].collection)
  /\ \A t \in TypeIds : Ok(t) => ~HasDuplicateKey(types[t].entries)

\* C2 amended: the build call returns a type whatever the sources hold; the
\* collision makes the first evaluation of the field list fail, and only a
\* collision does; an evaluated field list holds every contributed entry once,
\* under pairwise distinct names; two usable relations of one head and one tail
\* with equal names never evaluate to a field list, with distinct names
\* contribute entries of distinct names, and both their fields are in the
\* evaluated list.
C2_FailsAtFirstEvaluation ==
  \A t \in TypeIds :
    Evaluated(t) =>
      LET c == types[t].collection
          all == Contributed(c)
          keys(i) == { all[a].key : a \in { x \in 1..Len(all) :
                         all[x].kind = "forward" /\ all[x].src = i } }
      IN  /\ types[t].state = "error" <=> HasDuplicateKey(all)
          /\ Ok(t) => /\ ~HasDuplicateKey(types[t].entries)
                      /\ Len(types[t].entries) = Len(all)
          /\ \A i, j \in RelationIds :
               LET r == relations[i]
                   q == relations[j]
               IN  ( /\ i # j /\ r.head = c /\ q.head = c /\ r.tail = q.tail
                     /\ paginator[r.tail] /\ r.cond /\ q.cond )
                   => /\ r.name = q.name => ~Ok(t)
                      /\ r.name # q.name => keys(i) \cap keys(j) = {}
                      /\ (r.name # q.name /\ Ok(t)) =>
                           \E a \in EntriesOf(t, "forward", i), b \in EntriesOf(t, "forward", j) :
                             types[t].entries[a].key # types[t].entries[b].key

\* An evaluation that failed on a collision, next to a type that holds the
\* two fields of two relations of one head and one tail.
C2_Witness ==
  \E t, u \in TypeIds :
    /\ types[t].state = "error"
    /\ Ok(u)
    /\ \E i, j \in RelationIds :
         /\ i # j
         /\ relations[i].tail = relations[j].tail
         /\ EntriesOf(u, "forward", i) # {}
         /\ EntriesOf(u, "forward", j) # {}

-----------------------------------------------------------------------------
(* C3 *)

\* C3: the output type lists the node interface iff the collection has a
\* primary key, and its evaluated field list holds the identity field, named
\* nodeIdFieldName, iff the collection has a primary key.
C3_IdentityIffPrimaryKey ==
  \A t \in TypeIds :
    LET c == types[t].collection
    IN  /\ (types[t].interfaces # <<>>) <=> primaryKey[c]
        /\ ~primaryKey[c] => types[t].interfaces = <<>>
        /\ Ok(t) =>
             /\ HasKind(t, "identity") <=> primaryKey[c]
             /\ \A e \in EntryIds(t) :
                  types[t].entries[e].kind = "identity"
                    => e = 1 /\ types[t].entries[e].key = nodeIdFieldName

\* An evaluated type with the identity field next to an evaluated type of a
\* collection without primary key.
C3_Witness ==
  \E t, u \in TypeIds :
    /\ Ok(t) /\ primaryKey[types[t].collection] /\ HasKind(t, "identity")
    /\ Ok(u) /\ ~primaryKey[types[u].collection] /\ types[u].interfaces = <<>>

-----------------------------------------------------------------------------
(* C4 *)

\* C4 as stated: a relation whose head is the collection has exactly one
\* forward field when its tail has a paginator and none when it has not;
\* relations of another head have none.
C4_ForwardIffTailPaginator ==
  \A t \in TypeIds : \A i \in RelationIds :
    Ok(t) =>
      Cardinality(EntriesOf(t, "forward", i)) =
        IF relations[i].head = types[t].collection /\ paginator[relations[i].tail]
          THEN 1 ELSE 0

\* C4 amended: exactly one forward field, named by formatting
\* "<tailCollectionName>-by-<relationName>", when the tail has a paginator and
\* the relation has a getTailConditionFromHeadValue function; none otherwise.
C4_ForwardIffUsable ==
  \A t \in TypeIds : \A i \in RelationIds :
    Ok(t) =>
      LET r == relations[i]
      IN  /\ Cardinality(EntriesOf(t, "forward", i)) =
               IF r.head = types[t].collection /\ paginator[r.tail] /\ r.cond
                 THEN 1 ELSE 0
          /\ \A e \in EntriesOf(t, "forward", i) :
               /\ types[t].entries[e].key =
                    formatNameField(CollectionName(r.tail) \o <<"by">> \o r.name)
               /\ (r.tail = "post" /\ r.name = <<"author">>)
                    => types[t].entries[e].key = "postsByAuthor"

\* A type with the forward field of one relation and none for another
\* relation of the same head, which has no condition function.
C4_Witness ==
  \E t \in TypeIds : \E i, j \in RelationIds :
    /\ Ok(t)
    /\ EntriesOf(t, "forward", i) # {}
    /\ relations[j].head = types[t].collection
    /\ paginator[relations[j].tail] /\ ~relations[j].cond
    /\ EntriesOf(t, "forward", j) = {}

-----------------------------------------------------------------------------
(* C5 *)

\* C5 as stated: a skipped forward relation makes no call of the condition
\* type resolver or the connection field builder, and the evaluation ends as
\* it would, with the fields it would have, were the relation not registered.
C5_AsIfNotRegistered ==
  \A t \in TypeIds : \A i \in RelationIds :
    (Evaluated(t) /\ Skipped(types[t].collection, i)) =>
      LET c == types[t].collection
          without == RemoveAt(relations, i)
          w == buildObject(FieldSources(c, without, without))
      IN  /\ calls.conditionType[i] = 0
          /\ calls.connectionField[i] = 0
          /\ types[t].state = w.state
          /\ Unindexed(types[t].entries) = Unindexed(w.entries)

\* C5 amended: ... were the relation absent from the head relations; the
\* reverse entry of a skipped relation whose tail is the collection itself
\* is still contributed.
C5_AsIfNotAHeadRelation ==
  \A t \in TypeIds : \A i \in RelationIds :
    (Evaluated(t) /\ Skipped(types[t].collection, i)) =>
      LET c == types[t].collection
          w == buildObject(FieldSources(c, relations, RemoveAt(relations, i)))
      IN  /\ calls.conditionType[i] = 0
          /\ calls.connectionField[i] = 0
          /\ EntriesOf(t, "forward", i) = {}
          /\ types[t].state = w.state
          /\ Unindexed(types[t].entries) = Unindexed(w.entries)

\* An evaluated field list with a forward field, of a collection that is
\* also the head of a skipped relation.
C5_Witness ==
  \E t \in TypeIds : \E i \in RelationIds :
    /\ Ok(t)
    /\ Skipped(types[t].collection, i)
    /\ HasKind(t, "forward")

-----------------------------------------------------------------------------
(* C6 *)

\* C6: an evaluated field list holds the identity field, then the intrinsic
\* fields in the declaration order of type.fields, then the hook's entries in
\* the order the hook returns them, then the reverse entries, then the forward
\* fields in the order of inventory.getRelations(); two evaluations for one
\* collection give the same names in the same order.
C6_FieldOrder ==
  \A t \in TypeIds :
    Ok(t) =>
      LET c == types[t].collection
          es == types[t].entries
      IN  /\ \A a, b \in EntryIds(t) :
               a < b => \/ Rank(es[a].kind) < Rank(es[b].kind)
                        \/ es[a].kind = es[b].kind /\ es[a].src < es[b].src
          /\ \A k \in 1..Len(TypeFields(c)) :
               \E e \in EntriesOf(t, "intrinsic", k) :
                 es[e].key = formatNameField(TypeFields(c)[k])
          /\ hook # "absent" =>
               \A k \in 1..Len(HookResult(c)) :
                 \E e \in EntriesOf(t, "extension", k) : es[e].key = HookResult(c)[k]
          /\ \A u \in TypeIds :
               (Ok(u) /\ types[u].collection = c) => types[u].entries = es

\* Two evaluated types of one collection whose field lists hold a field of
\* each of the five sources.
C6_Witness ==
  \E t, u \in TypeIds :
    /\ t # u /\ Ok(t) /\ Ok(u)
    /\ types[t].collection = types[u].collection
    /\ \A kind \in {"identity", "intrinsic", "extension", "reverse", "forward"} :
         HasKind(t, kind)

-----------------------------------------------------------------------------
(* C7 *)

Untagged(v) == v.null \/ v.tag = "undefined"

\* C7 as stated: isTypeOf accepts every value without provenance tag; it
\* accepts a tagged value only if the tag is this collection, and rejects a
\* value tagged with another collection.
C7_UntaggedAlwaysAccepted ==
  observed.op = "isTypeOf" =>
    LET c == types[observed.type].collection
        v == observed.value
    IN  /\ Untagged(v) => observed.accepted
        /\ (~Untagged(v) /\ observed.accepted) => v.tag = c
        /\ (v.tag \in Collections \ {c}) => ~observed.accepted

\* C7 amended: isTypeOf accepts a value without provenance tag exactly when
\* the collection type's own isTypeOf accepts it; it accepts a tagged value
\* exactly when the tag is this collection and the collection type's own
\* isTypeOf accepts it, so a value tagged with another collection is rejected
\* whatever its shape.
C7_TagThenShape ==
  observed.op = "isTypeOf" =>
    LET c == types[observed.type].collection
        v == observed.value
    IN  /\ Untagged(v) => (observed.accepted <=> c \in v.shape)
        /\ ~Untagged(v) => (observed.accepted <=> (v.tag = c /\ c \in v.shape))
        /\ (v.tag \in Collections \ {c}) => ~observed.accepted

\* A value of a shape two collections share, tagged with the other
\* collection, is rejected.
C7_Witness ==
  /\ observed.op = "isTypeOf"
  /\ observed.value.tag \in Collections \ {types[observed.type].collection}
  /\ observed.value.shape = Collections
  /\ ~observed.accepted

-----------------------------------------------------------------------------
(* C8 *)

\* C8: the paginator input of a forward connection field selects the tail
\* values that both the relation's condition for the head value and the
\* condition of the `condition` argument select; without argument, or with an
\* empty one, it selects what the relation's condition selects; it never
\* selects a value the relation's condition excludes.
C8_PaginatorInput ==
  observed.op = "resolve" =>
    LET intrinsic == { v \in TailValues : v.ref = observed.head }
    IN  /\ observed.input =
             { v \in intrinsic :
                 /\ observed.arg = "flagTrue" => v.flag
                 /\ observed.arg = "flagFalse" => ~v.flag }
        /\ observed.arg \in {"undefined", "empty"} => observed.input = intrinsic
        /\ observed.input \subseteq intrinsic

\* A forward field resolved without `condition` argument selects tail values.
C8_Witness ==
  /\ observed.op = "resolve"
  /\ observed.arg = "undefined"
  /\ observed.input # {}
  /\ observed.input # TailValues

-----------------------------------------------------------------------------
(* C9 *)

\* C9: a call of createCollectionGqlType adds one output type whose field
\* list is not computed, leaves the types built before as they are, and calls
\* neither the field type resolver, the hook, the reverse-relation
\* synthesizer, inventory.getRelations(), the condition type resolver nor the
\* connection field builder.
C9_BuildComputesNoField ==
  [][ Len(types') > Len(types) =>
        /\ Len(types') = Len(types) + 1
        /\ types'[Len(types')].state = "thunk"
        /\ types'[Len(types')].entries = <<>>
        /\ \A t \in TypeIds : types'[t] = types[t]
        /\ calls'.thunk = calls.thunk
        /\ calls'.gqlOutputType = calls.gqlOutputType
        /\ calls'.hook = calls.hook
        /\ calls'.tailEntries = calls.tailEntries
        /\ calls'.getRelations = calls.getRelations
        /\ calls'.conditionType = calls.conditionType
        /\ calls'.connectionField = calls.connectionField ]_vars

\* The types of two collections that reference each other through relations
\* both exist, and no field list has been computed.
C9_Witness ==
  /\ \E t, u \in TypeIds :
       /\ types[t].collection # types[u].collection
       /\ ~Evaluated(t) /\ ~Evaluated(u)
       /\ \E i, j \in RelationIds :
            /\ relations[i].head = types[t].collection
            /\ relations[i].tail = types[u].collection
            /\ relations[j].head = types[u].collection
            /\ relations[j].tail = types[t].collection
  /\ calls.thunk = Zero
  /\ calls.getRelations = Zero

-----------------------------------------------------------------------------
(* C10 *)

\* C10: the field list of each collection's output type is computed at most
\* once: per collection the thunk, the hook, the reverse-relation synthesis
\* and the forward-relation synthesis run at most one time.
C10_ComputedOncePerCollection ==
  \A c \in Collections :
    /\ calls.thunk[c] <= 1
    /\ calls.hook[c] <= 1
    /\ calls.tailEntries[c] <= 1
    /\ calls.getRelations[c] <= 1

====
